---- MODULE Spec2Model ----
(***************************************************************************)
(* A model of the caching forwarding proxy of go-multithreaded-proxy:      *)
(* the LRU cache (internal/proxy/cache.go), its use by concurrent          *)
(* goroutines, and the two request handlers (the caching handler of        *)
(* cache.go and the URL-decoding handler of the second source file).       *)
(***************************************************************************)
EXTENDS Integers, Sequences, FiniteSets, TLC

\* ------------------------------------------------------------------------
\* Bounds of the model and the values the inputs are drawn from.

\* The largest capacity a cache of the model is created with.
MaxCap == 3

\* The number of goroutines that call the cache concurrently.
NumGoroutines == 2

\* The number of requests the server handles at a time.
NumRequests == 2

\* Keys passed to Get and Put.
Keys == {"a", "b", "c", "d"}

\* Byte sequences passed to Put (the empty one included).
Values == {<<>>, <<104, 105>>}

\* A nil []byte, as Get returns it on a miss: no bytes.
NilBytes == <<>>

\* A nil *list.Element, as Back() returns it on an empty list; the elements
\* of the model are numbered from 1.
NilElem == 0

\* No key: the key field of a record of a call that has none.
NoKey == "-"

\* The unlocked state of sync.Mutex; a locked one holds the number of the
\* goroutine that locked it, and goroutines are numbered from 1.
Unlocked == 0

VARIABLES
    lru,          \* the LRUCache object: capacity, cache (the index map), list
    mu,           \* lru.mu: Unlocked, or the goroutine that holds it
    last,         \* the most recent call on the cache and what it returned
    touched,      \* keys by their last Get-hit or Put, the latest first
    lastPut,      \* the value of the most recent Put of each key that was Put
    distinctPuts, \* TRUE while every call so far was a Put of a new key
    pc,           \* per goroutine, the statement of Get or Put it is at
    frame,        \* per goroutine, the arguments and locals of its call
    mode,         \* which handleRequest is built in: "self" or "embedded"
    req,          \* per request, the locals of its handleRequest call
    w             \* per request, its http.ResponseWriter

cacheVars == <<lru, mu>>
ghostVars == <<last, touched, lastPut, distinctPuts>>
concVars == <<pc, frame>>
handlerVars == <<mode, req, w>>

\* ------------------------------------------------------------------------
\* container/list, as far as the cache uses it. A list is the sequence of
\* its elements, front first. An element is a record: id is the identity
\* of the *list.Element, key and value are the fields of the *CacheItem it
\* holds.

CacheItem(id, key, value) == [id |-> id, key |-> key, value |-> value]

ElemIds(l) == {l[i].id : i \in 1..Len(l)}

ListKeys(l) == {l[i].key : i \in 1..Len(l)}

\* The position of element id in l (0 when it is not an element of l).
IndexOf(l, id) ==
    IF id \in ElemIds(l)
    THEN CHOOSE i \in 1..Len(l) : l[i].id = id /\ \A j \in 1..(i - 1) : l[j].id # id
    ELSE 0

\* l without the element at position i.
RemoveAt(l, i) == [j \in 1..(Len(l) - 1) |-> IF j < i THEN l[j] ELSE l[j + 1]]

\* list.Back(): the last element, nil for an empty list.
Back(l) == IF Len(l) = 0 THEN NilElem ELSE l[Len(l)].id

\* elem.Value.(*CacheItem).key.
ElemKey(l, id) ==
    LET i == IndexOf(l, id)
    IN  IF i = 0 THEN NoKey ELSE l[i].key

\* MoveToFront with a bug: e moves one place towards the front.
MoveToFront_OnePlace(l, id) ==
    LET i == IndexOf(l, id)
    IN  IF i <= 1 THEN l
        ELSE [j \in 1..Len(l) |-> IF j = i - 1 THEN l[i]
                                   ELSE IF j = i THEN l[i - 1] ELSE l[j]]

\* list.MoveToFront(e): nothing when e is not an element of the list.
MoveToFront(l, id) ==
    LET i == IndexOf(l, id)
    IN  IF i = 0 THEN l ELSE <<l[i]>> \o RemoveAt(l, i)

\* list.Remove(e): nothing when e is not an element of the list.
Remove(l, id) ==
    LET i == IndexOf(l, id)
    IN  IF i = 0 THEN l ELSE RemoveAt(l, i)

\* list.PushFront(v).
PushFront(l, item) == <<item>> \o l

\* elem.Value.(*CacheItem).value = value.
SetValue(l, id, value) ==
    [j \in 1..Len(l) |-> IF l[j].id = id THEN [l[j] EXCEPT !.value = value] ELSE l[j]]

\* elem.Value.(*CacheItem).value.
ElemValue(l, id) ==
    LET i == IndexOf(l, id)
    IN  IF i = 0 THEN NilBytes ELSE l[i].value

\* The identity of a newly allocated element: one no live pointer holds.
NewElemId(used) ==
    CHOOSE n \in 1..(Cardinality(used) + 1) :
        n \notin used /\ \A m \in 1..(n - 1) : m \in used

\* delete(m, k) on the index map.
MapDelete(m, k) == [x \in (DOMAIN m) \ {k} |-> m[x]]

\* m[k] = v on the index map.
MapSet(m, k, v) == [x \in (DOMAIN m) \cup {k} |-> IF x = k THEN v ELSE m[x]]

\* ------------------------------------------------------------------------
\* LRUCache.

NewLRUCache(capacity) ==
    [capacity |-> capacity, cache |-> <<>>, list |-> <<>>]

\* The pointers the cache holds.
LiveIds(c) == ElemIds(c.list) \cup {c.cache[k] : k \in DOMAIN c.cache}

\* Get with a bug: a hit does not move the element to the front.
Get_NoMoveToFront(c, key) ==
    IF key \in DOMAIN c.cache
    THEN [lru |-> c, value |-> ElemValue(c.list, c.cache[key]), found |-> TRUE]
    ELSE [lru |-> c, value |-> NilBytes, found |-> FALSE]

\* Get with a bug: a miss moves the back element to the front.
Get_MissReorders(c, key) ==
    IF key \in DOMAIN c.cache
    THEN LET elem == c.cache[key]
         IN  [lru   |-> [c EXCEPT !.list = MoveToFront(@, elem)],
              value |-> ElemValue(c.list, elem),
              found |-> TRUE]
    ELSE [lru   |-> [c EXCEPT !.list = MoveToFront(@, Back(@))],
          value |-> NilBytes, found |-> FALSE]

\* Get: the cache after the call, and the two results.
Get(c, key) ==
    IF key \in DOMAIN c.cache
    THEN LET elem == c.cache[key]
         IN  [lru   |-> [c EXCEPT !.list = MoveToFront(@, elem)],
              value |-> ElemValue(c.list, elem),
              found |-> TRUE]
    ELSE [lru |-> c, value |-> NilBytes, found |-> FALSE]

\* Evict with a bug: the back element leaves the list and stays in the map.
Evict_KeepsIndex(c) ==
    IF Cardinality(DOMAIN c.cache) >= c.capacity
    THEN LET lastElem == Back(c.list)
         IN  IF lastElem # NilElem THEN [c EXCEPT !.list = Remove(@, lastElem)] ELSE c
    ELSE c

\* Evict with a bug: > where the code has >=.
Evict_OffByOne(c) ==
    IF Cardinality(DOMAIN c.cache) > c.capacity
    THEN LET lastElem == Back(c.list)
         IN  IF lastElem # NilElem
             THEN [c EXCEPT !.cache = MapDelete(@, ElemKey(c.list, lastElem)),
                            !.list  = Remove(@, lastElem)]
             ELSE c
    ELSE c

\* Evict with a bug: == where the code has >=.
Evict_WhenEqual(c) ==
    IF Cardinality(DOMAIN c.cache) = c.capacity
    THEN LET lastElem == Back(c.list)
         IN  IF lastElem # NilElem
             THEN [c EXCEPT !.cache = MapDelete(@, ElemKey(c.list, lastElem)),
                            !.list  = Remove(@, lastElem)]
             ELSE c
    ELSE c

\* Evict with a bug: the front element is evicted, not the back one.
Evict_Front(c) ==
    IF Cardinality(DOMAIN c.cache) >= c.capacity
    THEN IF Len(c.list) # 0
         THEN [c EXCEPT !.cache = MapDelete(@, c.list[1].key),
                        !.list  = Remove(@, c.list[1].id)]
         ELSE c
    ELSE c

\* The eviction of Put: with the map at capacity, the back element leaves
\* the map and the list (nothing when the list is empty).
Evict(c) ==
    IF Cardinality(DOMAIN c.cache) >= c.capacity
    THEN LET lastElem == Back(c.list)
         IN  IF lastElem # NilElem
             THEN [c EXCEPT !.cache = MapDelete(@, ElemKey(c.list, lastElem)),
                            !.list  = Remove(@, lastElem)]
             ELSE c
    ELSE c

\* The insertion of Put: a new element at the front, registered in the map.
Insert(c, key, value) ==
    LET id == NewElemId(LiveIds(c))
    IN  [c EXCEPT !.list  = PushFront(@, CacheItem(id, key, value)),
                  !.cache = MapSet(@, key, id)]

\* Put with a bug: no look at the map, every call inserts.
Put_AlwaysInserts(c, key, value) == Insert(Evict(c), key, value)

\* Put with a bug: a present key is moved to the front with its old value.
Put_KeepsOldValue(c, key, value) ==
    IF key \in DOMAIN c.cache
    THEN [c EXCEPT !.list = MoveToFront(@, c.cache[key])]
    ELSE Insert(Evict(c), key, value)

\* Put with a bug: a present key gets its value and stays where it is.
Put_NoMoveToFront(c, key, value) ==
    IF key \in DOMAIN c.cache
    THEN [c EXCEPT !.list = SetValue(@, c.cache[key], value)]
    ELSE Insert(Evict(c), key, value)

\* Put: the cache after the call.
Put(c, key, value) ==
    IF key \in DOMAIN c.cache
    THEN LET elem == c.cache[key]
         IN  [c EXCEPT !.list = SetValue(MoveToFront(@, elem), elem, value)]
    ELSE Insert(Evict(c), key, value)

\* ------------------------------------------------------------------------
\* The record of calls: what the claims about sequences of calls refer to.

\* A call: op, key and value are the call, found and ret what it found and
\* returned, afterHit the key of the Get that hit directly before it.
Call(op, key, value, found, ret, before) ==
    [op |-> op, key |-> key, value |-> value, found |-> found, ret |-> ret,
     afterHit |-> IF before.op = "Get" /\ before.found THEN before.key ELSE NoKey]

NoCall ==
    [op |-> "New", key |-> NoKey, value |-> NilBytes, found |-> FALSE,
     ret |-> NilBytes, afterHit |-> NoKey]

\* keys with k moved (or added) to the front.
Touch(keys, k) == <<k>> \o SelectSeq(keys, LAMBDA x : x # k)

\* ------------------------------------------------------------------------
\* Goroutines calling the cache.

Goroutines == 1..NumGoroutines

\* The arguments and locals of a call: op, key, value; elem and lastElem.
Frame(op, key, value) ==
    [op |-> op, key |-> key, value |-> value, elem |-> NilElem, lastElem |-> NilElem]

NoFrame == Frame("none", NoKey, NilBytes)

\* ------------------------------------------------------------------------
\* Requests and responses.

Requests == 1..NumRequests

\* A body written to a response: the bytes of a []byte, or the text of a
\* string.
Bytes(b) == [kind |-> "bytes", bytes |-> b, text |-> ""]
Text(t) == [kind |-> "text", bytes |-> <<>>, text |-> t]

\* No header: an empty http.Header.
NoHeader == <<>>

\* A ResponseWriter nothing was written to: status 0 is "no status line
\* written yet". errors and writes count the calls of http.Error and of
\* Write / io.Copy.
NewResponseWriter ==
    [status |-> 0, header |-> NoHeader, body |-> <<>>, errors |-> 0, writes |-> 0]

\* The result of an outbound GET that succeeded: a *http.Response.
Response(status, header, body) == [status |-> status, header |-> header, body |-> body]

NoResponse == Response(0, NoHeader, <<>>)

\* The locals of a handleRequest call, and the counts of what it called.
\* url is r.URL.String(), path is r.URL.Path. The calls a handler makes on
\* the cache are recorded here (found, cachedResp, body, gets, puts), not
\* in last. err names the call that failed ("" while none has).
NewRequest ==
    [pc |-> "idle", url |-> "", path |-> <<>>, target |-> <<>>,
     cachedResp |-> NilBytes, found |-> FALSE,
     resp |-> NoResponse, body |-> <<>>, err |-> "",
     gets |-> 0, fetches |-> 0, puts |-> 0]

\* ------------------------------------------------------------------------
\* Spec: one cache of any capacity in 1..MaxCap, called sequentially.

\* The part of the state that only the request handlers change.
InitHandlerVars ==
    /\ req = [r \in Requests |-> NewRequest]
    /\ w = [r \in Requests |-> NewResponseWriter]

Init ==
    /\ mode = "self"
    /\ InitHandlerVars
    /\ \E capacity \in 1..MaxCap : lru = NewLRUCache(capacity)
    /\ mu = Unlocked
    /\ last = NoCall
    /\ touched = <<>>
    /\ lastPut = <<>>
    /\ distinctPuts = TRUE
    /\ pc = [p \in Goroutines |-> "idle"]
    /\ frame = [p \in Goroutines |-> NoFrame]

\* A call of Get(key), from Lock to Unlock.
CallGet(key) ==
    /\ mu = Unlocked
    /\ LET r == Get(lru, key)
       IN  /\ lru' = r.lru
           /\ last' = Call("Get", key, NilBytes, r.found, r.value, last)
           /\ touched' = IF r.found THEN Touch(touched, key) ELSE touched
    /\ distinctPuts' = FALSE
    /\ UNCHANGED <<mu, lastPut, concVars, handlerVars>>

\* A call of Put(key, value), from Lock to Unlock.
CallPut(key, value) ==
    /\ mu = Unlocked
    /\ lru' = Put(lru, key, value)
    /\ last' = Call("Put", key, value, key \in DOMAIN lru.cache, NilBytes, last)
    /\ touched' = Touch(touched, key)
    /\ lastPut' = MapSet(lastPut, key, value)
    /\ distinctPuts' = (distinctPuts /\ key \notin DOMAIN lastPut)
    /\ UNCHANGED <<mu, concVars, handlerVars>>

Next ==
    \/ \E key \in Keys : CallGet(key)
    \/ \E key \in Keys, value \in Values : CallPut(key, value)

vars == <<lru, mu, last, touched, lastPut, distinctPuts, pc, frame, mode, req, w>>

Spec == Init /\ [][Next]_vars

\* ------------------------------------------------------------------------
\* SpecConc: NumGoroutines goroutines call Get and Put on one cache. Every
\* statement of the two methods is a step of its own.

\* The keys and values the goroutines pass.
ConcKeys == {"a", "b", "c"}
ConcValues == {<<104, 105>>}

\* p is between Lock and Unlock.
InBody(p) == pc[p] \notin {"idle", "Lock"}

\* p goes to statement to.
Goto(p, to) == pc' = [pc EXCEPT ![p] = to]

\* The pointers held by the cache and by the locals of the goroutines.
UsedIds ==
    (LiveIds(lru) \cup {frame[q].elem : q \in Goroutines}
                 \cup {frame[q].lastElem : q \in Goroutines}) \ {NilElem}

\* A goroutine calls Get(key).
StartGet(p, key) ==
    /\ pc[p] = "idle"
    /\ frame' = [frame EXCEPT ![p] = Frame("Get", key, NilBytes)]
    /\ Goto(p, "Lock")
    /\ UNCHANGED <<cacheVars, ghostVars, handlerVars>>

\* A goroutine calls Put(key, value).
StartPut(p, key, value) ==
    /\ pc[p] = "idle"
    /\ frame' = [frame EXCEPT ![p] = Frame("Put", key, value)]
    /\ Goto(p, "Lock")
    /\ UNCHANGED <<cacheVars, ghostVars, handlerVars>>

\* Lock with a bug: the goroutine does not wait for the mutex.
Lock_NoWait(p) ==
    /\ pc[p] = "Lock"
    /\ mu' = p
    /\ Goto(p, "Lookup")
    /\ UNCHANGED <<lru, frame, ghostVars, handlerVars>>

\* lru.mu.Lock(): blocks while another goroutine holds the mutex.
Lock(p) ==
    /\ pc[p] = "Lock"
    /\ mu = Unlocked
    /\ mu' = p
    /\ Goto(p, "Lookup")
    /\ UNCHANGED <<lru, frame, ghostVars, handlerVars>>

\* Lookup with a bug: the Unlock is not deferred, and the return of a Get
\* miss leaves without it.
Lookup_MissReturnsLocked(p) ==
    /\ pc[p] = "Lookup"
    /\ LET key == frame[p].key
           found == key \in DOMAIN lru.cache
       IN  IF ~found /\ frame[p].op = "Get"
           THEN /\ frame' = [frame EXCEPT ![p] = NoFrame]
                /\ Goto(p, "idle")
           ELSE /\ frame' = [frame EXCEPT ![p].elem = IF found THEN lru.cache[key] ELSE NilElem]
                /\ Goto(p, IF found THEN "MoveToFront" ELSE "CheckCapacity")
    /\ UNCHANGED <<cacheVars, ghostVars, handlerVars>>

\* elem, found := lru.cache[key], in Get and in Put.
Lookup(p) ==
    /\ pc[p] = "Lookup"
    /\ LET key == frame[p].key
           found == key \in DOMAIN lru.cache
       IN  /\ frame' = [frame EXCEPT ![p].elem = IF found THEN lru.cache[key] ELSE NilElem]
           /\ Goto(p, CASE found -> "MoveToFront"
                        [] ~found /\ frame[p].op = "Get" -> "Unlock"
                        [] OTHER -> "CheckCapacity")
    /\ UNCHANGED <<cacheVars, ghostVars, handlerVars>>

\* lru.list.MoveToFront(elem), in Get and in Put.
DoMoveToFront(p) ==
    /\ pc[p] = "MoveToFront"
    /\ lru' = [lru EXCEPT !.list = MoveToFront(@, frame[p].elem)]
    /\ Goto(p, IF frame[p].op = "Get" THEN "ReadValue" ELSE "SetValue")
    /\ UNCHANGED <<mu, frame, ghostVars, handlerVars>>

\* return elem.Value.(*CacheItem).value, true, in Get.
ReadValue(p) ==
    /\ pc[p] = "ReadValue"
    /\ frame' = [frame EXCEPT ![p].value = ElemValue(lru.list, frame[p].elem)]
    /\ Goto(p, "Unlock")
    /\ UNCHANGED <<cacheVars, ghostVars, handlerVars>>

\* elem.Value.(*CacheItem).value = value, in Put.
DoSetValue(p) ==
    /\ pc[p] = "SetValue"
    /\ lru' = [lru EXCEPT !.list = SetValue(@, frame[p].elem, frame[p].value)]
    /\ Goto(p, "Unlock")
    /\ UNCHANGED <<mu, frame, ghostVars, handlerVars>>

\* if len(lru.cache) >= lru.capacity, in Put.
CheckCapacity(p) ==
    /\ pc[p] = "CheckCapacity"
    /\ Goto(p, IF Cardinality(DOMAIN lru.cache) >= lru.capacity THEN "Back" ELSE "PushFront")
    /\ UNCHANGED <<cacheVars, frame, ghostVars, handlerVars>>

\* lastElem := lru.list.Back(); if lastElem != nil, in Put.
DoBack(p) ==
    /\ pc[p] = "Back"
    /\ frame' = [frame EXCEPT ![p].lastElem = Back(lru.list)]
    /\ Goto(p, IF Back(lru.list) # NilElem THEN "Delete" ELSE "PushFront")
    /\ UNCHANGED <<cacheVars, ghostVars, handlerVars>>

\* delete(lru.cache, lastElem.Value.(*CacheItem).key), in Put.
DoDelete(p) ==
    /\ pc[p] = "Delete"
    /\ lru' = [lru EXCEPT !.cache = MapDelete(@, ElemKey(lru.list, frame[p].lastElem))]
    /\ Goto(p, "Remove")
    /\ UNCHANGED <<mu, frame, ghostVars, handlerVars>>

\* lru.list.Remove(lastElem), in Put.
DoRemove(p) ==
    /\ pc[p] = "Remove"
    /\ lru' = [lru EXCEPT !.list = Remove(@, frame[p].lastElem)]
    /\ Goto(p, "PushFront")
    /\ UNCHANGED <<mu, frame, ghostVars, handlerVars>>

\* elem := lru.list.PushFront(&CacheItem{key, value}), in Put.
DoPushFront(p) ==
    /\ pc[p] = "PushFront"
    /\ LET id == NewElemId(UsedIds)
       IN  /\ lru' = [lru EXCEPT !.list =
                          PushFront(@, CacheItem(id, frame[p].key, frame[p].value))]
           /\ frame' = [frame EXCEPT ![p].elem = id]
    /\ Goto(p, "Store")
    /\ UNCHANGED <<mu, ghostVars, handlerVars>>

\* lru.cache[key] = elem, in Put.
Store(p) ==
    /\ pc[p] = "Store"
    /\ lru' = [lru EXCEPT !.cache = MapSet(@, frame[p].key, frame[p].elem)]
    /\ Goto(p, "Unlock")
    /\ UNCHANGED <<mu, frame, ghostVars, handlerVars>>

\* The deferred lru.mu.Unlock(), and the return.
Unlock(p) ==
    /\ pc[p] = "Unlock"
    /\ mu' = Unlocked
    /\ frame' = [frame EXCEPT ![p] = NoFrame]
    /\ Goto(p, "idle")
    /\ UNCHANGED <<lru, ghostVars, handlerVars>>

NextConc ==
    \/ \E p \in Goroutines, key \in ConcKeys : StartGet(p, key)
    \/ \E p \in Goroutines, key \in ConcKeys, value \in ConcValues : StartPut(p, key, value)
    \/ \E p \in Goroutines : Lock(p)
    \/ \E p \in Goroutines : Lookup(p)
    \/ \E p \in Goroutines : DoMoveToFront(p)
    \/ \E p \in Goroutines : ReadValue(p)
    \/ \E p \in Goroutines : DoSetValue(p)
    \/ \E p \in Goroutines : CheckCapacity(p)
    \/ \E p \in Goroutines : DoBack(p)
    \/ \E p \in Goroutines : DoDelete(p)
    \/ \E p \in Goroutines : DoRemove(p)
    \/ \E p \in Goroutines : DoPushFront(p)
    \/ \E p \in Goroutines : Store(p)
    \/ \E p \in Goroutines : Unlock(p)

SpecConc == Init /\ [][NextConc]_vars

\* ------------------------------------------------------------------------
\* net/http and strings, as far as the handlers use them.

StatusOK == 200
StatusBadRequest == 400
StatusInternalServerError == 500
StatusBadGateway == 502

\* The capacity of the global cache instance.
CacheCapacity == 10

\* w.WriteHeader(code): a second status line is not written.
WriteHeader(wr, code) == IF wr.status = 0 THEN [wr EXCEPT !.status = code] ELSE wr

\* w.Write(b): writes the status line 200 first when none was written.
Write(wr, chunk) ==
    [WriteHeader(wr, StatusOK) EXCEPT !.body = Append(@, chunk), !.writes = @ + 1]

\* w.Header().Set(name, value).
HeaderSet(h, name, value) == MapSet(h, name, <<value>>)

\* w.Header().Add(name, value).
HeaderAdd(h, name, value) ==
    MapSet(h, name, IF name \in DOMAIN h THEN Append(h[name], value) ELSE <<value>>)

\* fmt.Fprintln(w, msg): the message and a newline.
Fprintln(msg) == Text(msg \o "\n")

\* http.Error(w, msg, code): a text/plain response of the given status
\* whose body is the line msg.
HttpError(wr, msg, code) ==
    LET h  == HeaderSet(HeaderSet(MapDelete(wr.header, "Content-Length"),
                                  "Content-Type", "text/plain; charset=utf-8"),
                        "X-Content-Type-Options", "nosniff")
        w1 == WriteHeader([wr EXCEPT !.header = h], code)
    IN  [w1 EXCEPT !.body = Append(@, Fprintln(msg)), !.errors = @ + 1]

\* strings.HasPrefix(s, prefix), on byte sequences.
HasPrefix(str, prefix) ==
    Len(str) >= Len(prefix) /\ SubSeq(str, 1, Len(prefix)) = prefix

\* strings.TrimPrefix(s, prefix).
TrimPrefix(str, prefix) ==
    IF HasPrefix(str, prefix) THEN SubSeq(str, Len(prefix) + 1, Len(str)) ELSE str

\* ishex and unhex of net/url, on ASCII codes.
IsHex(c) == c \in (48..57) \cup (97..102) \cup (65..70)

Unhex(c) ==
    IF c \in 48..57 THEN c - 48
    ELSE IF c \in 97..102 THEN c - 97 + 10
    ELSE IF c \in 65..70 THEN c - 65 + 10
    ELSE 0

\* The first loop of url.unescape: every % is followed by two hex digits.
RECURSIVE ValidEscapes(_, _)
ValidEscapes(str, i) ==
    IF i > Len(str) THEN TRUE
    ELSE IF str[i] = 37
         THEN /\ i + 2 <= Len(str)
              /\ IsHex(str[i + 1])
              /\ IsHex(str[i + 2])
              /\ ValidEscapes(str, i + 3)
         ELSE ValidEscapes(str, i + 1)

\* The second loop of url.unescape in query mode: %XX is the byte XX, + is
\* a space.
RECURSIVE Unescaped(_, _)
Unescaped(str, i) ==
    IF i > Len(str) THEN <<>>
    ELSE IF str[i] = 37
         THEN <<Unhex(str[i + 1]) * 16 + Unhex(str[i + 2])>> \o Unescaped(str, i + 3)
         ELSE IF str[i] = 43
              THEN <<32>> \o Unescaped(str, i + 1)
              ELSE <<str[i]>> \o Unescaped(str, i + 1)

\* url.QueryUnescape(s): the decoded string, or an error and "".
QueryUnescape(str) ==
    IF ValidEscapes(str, 1)
    THEN [err |-> FALSE, str |-> Unescaped(str, 1)]
    ELSE [err |-> TRUE, str |-> <<>>]

\* "/", "http://" and "https://" in ASCII.
Slash == <<47>>
HttpScheme == <<104, 116, 116, 112, 58, 47, 47>>
HttpsScheme == <<104, 116, 116, 112, 115, 58, 47, 47>>

\* ------------------------------------------------------------------------
\* What the handlers are given: the requests, and what the upstream
\* servers answer.

\* r.URL.String() of the requests of the caching handler.
SelfURLs == {"http://up/a", "http://up/b"}

\* r.URL.Path of the requests of the decoding handler.
Paths ==
    { \* /http://x
      <<47, 104, 116, 116, 112, 58, 47, 47, 120>>,
      \* /https://x
      <<47, 104, 116, 116, 112, 115, 58, 47, 47, 120>>,
      \* /http%3A%2F%2Fx
      <<47, 104, 116, 116, 112, 37, 51, 65, 37, 50, 70, 37, 50, 70, 120>>,
      \* /ftp://x
      <<47, 102, 116, 112, 58, 47, 47, 120>>,
      \* /http://x%zz
      <<47, 104, 116, 116, 112, 58, 47, 47, 120, 37, 122, 122>>,
      \* /x%2
      <<47, 120, 37, 50>>,
      \* /a+b
      <<47, 97, 43, 98>> }

\* The responses an upstream server gives.
Upstream ==
    { Response(200, ("Set-Cookie" :> <<"a=1", "b=2">>) @@ ("Content-Type" :> <<"text/html">>),
               <<104, 105>>),
      Response(404, NoHeader, <<>>) }

\* ------------------------------------------------------------------------
\* handleRequest of cache.go: the request's URL is the cache key and the
\* fetch target.

At(r, where) == req[r].pc = where

\* The handler is called: cacheKey := r.URL.String().
SelfAccept(r, url) ==
    /\ mode = "self"
    /\ At(r, "idle")
    /\ req' = [req EXCEPT ![r] = [NewRequest EXCEPT !.pc = "GetLock", !.url = url]]
    /\ w' = [w EXCEPT ![r] = NewResponseWriter]
    /\ UNCHANGED <<cacheVars, mode, ghostVars, concVars>>

\* cache.Get(cacheKey): lru.mu.Lock().
SelfGetLock(r) ==
    /\ At(r, "GetLock")
    /\ mu = Unlocked
    /\ mu' = r
    /\ req' = [req EXCEPT ![r].pc = "Get"]
    /\ UNCHANGED <<lru, mode, w, ghostVars, concVars>>

\* AfterGet with a bug: the result of the lookup is not looked at.
AfterGet_IgnoresHit(found) == "ClientGet"

\* What follows cache.Get in the handler: a hit is written and ends the
\* request, a miss goes on to the fetch.
AfterGet(found) == IF found THEN "WriteCached" ELSE "ClientGet"

\* DeferredUnlock with a bug: Get unlocks before the return of a hit only,
\* a miss returns with the lock held.
DeferredUnlock_NotOnMiss(holder, found) == IF found THEN Unlocked ELSE holder

\* defer lru.mu.Unlock() in Get: the mutex after the return of the call of
\* holder, whether it found the key or not.
DeferredUnlock(holder, found) == Unlocked

\* cache.Get(cacheKey): the body of Get, and the deferred Unlock.
SelfGet(r) ==
    /\ At(r, "Get")
    /\ mu = r
    /\ LET g == Get(lru, req[r].url)
       IN  /\ lru' = g.lru
           /\ req' = [req EXCEPT ![r].cachedResp = g.value,
                                  ![r].found = g.found,
                                  ![r].gets = @ + 1,
                                  ![r].pc = AfterGet(g.found)]
           /\ touched' = IF g.found THEN Touch(touched, req[r].url) ELSE touched
           /\ mu' = DeferredUnlock(r, g.found)
    /\ UNCHANGED <<mode, w, last, lastPut, distinctPuts, concVars>>

\* if found: w.Write(cachedResp); return.
SelfWriteCached(r) ==
    /\ At(r, "WriteCached")
    /\ w' = [w EXCEPT ![r] = Write(@, Bytes(req[r].cachedResp))]
    /\ req' = [req EXCEPT ![r].pc = "Done"]
    /\ UNCHANGED <<cacheVars, mode, ghostVars, concVars>>

\* AfterError with a bug: the return is missing, the next statement runs.
AfterError_NoReturn(next) == next

\* What follows an error response in the handlers: return.
AfterError(next) == "Done"

\* resp, err := client.Get(r.URL.String()); if err != nil: 502 and return.
\* A fetch that gets no answer within the timeout is one that fails.
SelfClientGet(r) ==
    /\ At(r, "ClientGet")
    /\ \/ /\ req' = [req EXCEPT ![r].fetches = @ + 1, ![r].err = "fetch",
                                   ![r].pc = AfterError("ReadAll")]
          /\ w' = [w EXCEPT ![r] =
                      HttpError(@, "Failed to fetch from target", StatusBadGateway)]
       \/ \E resp \in Upstream :
            /\ req' = [req EXCEPT ![r].fetches = @ + 1, ![r].resp = resp,
                                   ![r].pc = "ReadAll"]
            /\ w' = w
    /\ UNCHANGED <<cacheVars, mode, ghostVars, concVars>>

\* body, err := io.ReadAll(resp.Body); if err != nil: 500 and return.
SelfReadAll(r) ==
    /\ At(r, "ReadAll")
    /\ \/ /\ req' = [req EXCEPT ![r].err = "read", ![r].pc = AfterError("PutLock")]
          /\ w' = [w EXCEPT ![r] =
                      HttpError(@, "Failed to read response", StatusInternalServerError)]
       \/ /\ req' = [req EXCEPT ![r].body = req[r].resp.body, ![r].pc = "PutLock"]
          /\ w' = w
    /\ UNCHANGED <<cacheVars, mode, ghostVars, concVars>>

\* cache.Put(cacheKey, body): lru.mu.Lock().
SelfPutLock(r) ==
    /\ At(r, "PutLock")
    /\ mu = Unlocked
    /\ mu' = r
    /\ req' = [req EXCEPT ![r].pc = "Put"]
    /\ UNCHANGED <<lru, mode, w, ghostVars, concVars>>

\* cache.Put(cacheKey, body): the body of Put, and the deferred Unlock.
SelfPut(r) ==
    /\ At(r, "Put")
    /\ mu = r
    /\ lru' = Put(lru, req[r].url, req[r].body)
    /\ mu' = Unlocked
    /\ req' = [req EXCEPT ![r].puts = @ + 1, ![r].pc = "Write"]
    /\ touched' = Touch(touched, req[r].url)
    /\ lastPut' = MapSet(lastPut, req[r].url, req[r].body)
    /\ UNCHANGED <<mode, w, last, distinctPuts, concVars>>

\* w.Write(body), and the return.
SelfWrite(r) ==
    /\ At(r, "Write")
    /\ w' = [w EXCEPT ![r] = Write(@, Bytes(req[r].body))]
    /\ req' = [req EXCEPT ![r].pc = "Done"]
    /\ UNCHANGED <<cacheVars, mode, ghostVars, concVars>>

\* ------------------------------------------------------------------------
\* handleRequest of the second source file: the target is decoded from the
\* request's path, and nothing is cached.

\* The handler is called.
EmbeddedAccept(r, path) ==
    /\ mode = "embedded"
    /\ At(r, "idle")
    /\ req' = [req EXCEPT ![r] = [NewRequest EXCEPT !.pc = "Unescape", !.path = path]]
    /\ w' = [w EXCEPT ![r] = NewResponseWriter]
    /\ UNCHANGED <<cacheVars, mode, ghostVars, concVars>>

\* targetURL := strings.TrimPrefix(r.URL.Path, "/"); targetURL, err :=
\* url.QueryUnescape(targetURL); if err != nil: 400 and return.
EmbeddedUnescape(r) ==
    /\ At(r, "Unescape")
    /\ LET u == QueryUnescape(TrimPrefix(req[r].path, Slash))
       IN  IF u.err
           THEN /\ req' = [req EXCEPT ![r].err = "unescape",
                                       ![r].pc = AfterError("CheckScheme")]
                /\ w' = [w EXCEPT ![r] =
                            HttpError(@, "Invalid URL encoding", StatusBadRequest)]
           ELSE /\ req' = [req EXCEPT ![r].target = u.str, ![r].pc = "CheckScheme"]
                /\ w' = w
    /\ UNCHANGED <<cacheVars, mode, ghostVars, concVars>>

\* InvalidScheme with a bug: || where the code has &&.
InvalidScheme_Or(target) ==
    ~HasPrefix(target, HttpScheme) \/ ~HasPrefix(target, HttpsScheme)

\* !strings.HasPrefix(targetURL, "http://") &&
\* !strings.HasPrefix(targetURL, "https://").
InvalidScheme(target) ==
    ~HasPrefix(target, HttpScheme) /\ ~HasPrefix(target, HttpsScheme)

\* if the target starts with neither http:// nor https://: 400 and return.
EmbeddedCheckScheme(r) ==
    /\ At(r, "CheckScheme")
    /\ IF InvalidScheme(req[r].target)
       THEN /\ req' = [req EXCEPT ![r].err = "scheme", ![r].pc = AfterError("HttpGet")]
            /\ w' = [w EXCEPT ![r] =
                        HttpError(@, "Invalid target URL", StatusBadRequest)]
       ELSE /\ req' = [req EXCEPT ![r].pc = "HttpGet"]
            /\ w' = w
    /\ UNCHANGED <<cacheVars, mode, ghostVars, concVars>>

\* EmbeddedHttpGet with a bug: a target another request has fetched is not
\* fetched again, that request's fetch result is used.
EmbeddedHttpGet_Memo(r) ==
    /\ At(r, "HttpGet")
    /\ IF \E q \in Requests \ {r} : /\ req[q].target = req[r].target
                                     /\ req[q].resp \in Upstream
       THEN \E q \in Requests \ {r} :
                /\ req[q].target = req[r].target
                /\ req[q].resp \in Upstream
                /\ req' = [req EXCEPT ![r].resp = req[q].resp,
                                       ![r].pc = "CopyHeaders"]
                /\ w' = w
       ELSE \/ /\ req' = [req EXCEPT ![r].fetches = @ + 1, ![r].err = "fetch",
                                       ![r].pc = AfterError("CopyHeaders")]
               /\ w' = [w EXCEPT ![r] =
                          HttpError(@, "Failed to reach target server", StatusBadGateway)]
            \/ \E resp \in Upstream :
                 /\ req' = [req EXCEPT ![r].fetches = @ + 1, ![r].resp = resp,
                                        ![r].pc = "CopyHeaders"]
                 /\ w' = w
    /\ UNCHANGED <<cacheVars, mode, ghostVars, concVars>>

\* resp, err := http.Get(targetURL); if err != nil: 502 and return.
EmbeddedHttpGet(r) ==
    /\ At(r, "HttpGet")
    /\ \/ /\ req' = [req EXCEPT ![r].fetches = @ + 1, ![r].err = "fetch",
                                   ![r].pc = AfterError("CopyHeaders")]
          /\ w' = [w EXCEPT ![r] =
                      HttpError(@, "Failed to reach target server", StatusBadGateway)]
       \/ \E resp \in Upstream :
            /\ req' = [req EXCEPT ![r].fetches = @ + 1, ![r].resp = resp,
                                   ![r].pc = "CopyHeaders"]
            /\ w' = w
    /\ UNCHANGED <<cacheVars, mode, ghostVars, concVars>>

\* http.Get uses http.DefaultClient, which has no Timeout: when the
\* upstream accepts the connection and never answers, the call does not
\* return and the handler stays in it.
EmbeddedHttpGetBlocks(r) ==
    /\ At(r, "HttpGet")
    /\ req' = [req EXCEPT ![r].fetches = @ + 1, ![r].pc = "Blocked"]
    /\ UNCHANGED <<w, cacheVars, mode, ghostVars, concVars>>

\* The header h with every value of every name of from added, the values
\* of a name in their order.
RECURSIVE AddValues(_, _, _)
AddValues(h, name, values) ==
    IF values = <<>> THEN h
    ELSE AddValues(HeaderAdd(h, name, Head(values)), name, Tail(values))

RECURSIVE AddAll(_, _, _)
AddAll(h, from, names) ==
    IF names = {} THEN h
    ELSE LET name == CHOOSE n \in names : TRUE
         IN  AddAll(AddValues(h, name, from[name]), from, names \ {name})

\* for key, values := range resp.Header: w.Header().Add(key, value); then
\* w.WriteHeader(resp.StatusCode).
EmbeddedCopyHeaders(r) ==
    /\ At(r, "CopyHeaders")
    /\ w' = [w EXCEPT ![r] =
                WriteHeader([@ EXCEPT !.header =
                                AddAll(@, req[r].resp.header, DOMAIN req[r].resp.header)],
                            req[r].resp.status)]
    /\ req' = [req EXCEPT ![r].pc = "CopyBody"]
    /\ UNCHANGED <<cacheVars, mode, ghostVars, concVars>>

\* io.Copy(w, resp.Body), its error ignored: the body, or what of it was
\* read before the read failed; and the return.
EmbeddedCopyBody(r) ==
    /\ At(r, "CopyBody")
    /\ \E n \in 0..Len(req[r].resp.body) :
        /\ req' = [req EXCEPT ![r].body = SubSeq(req[r].resp.body, 1, n), ![r].pc = "Done"]
        /\ w' = [w EXCEPT ![r] = Write(@, Bytes(SubSeq(req[r].resp.body, 1, n)))]
    /\ UNCHANGED <<cacheVars, mode, ghostVars, concVars>>

\* io.Copy(w, resp.Body) reads the body through http.DefaultClient too: no
\* Timeout, no deadline for the body. When the upstream stalls after the
\* headers or in the middle of the body and keeps the connection open,
\* io.Copy has written what it read and does not return: the handler stays
\* in it.
EmbeddedCopyBodyBlocks(r) ==
    /\ At(r, "CopyBody")
    /\ \E n \in 0..Len(req[r].resp.body) :
        /\ req' = [req EXCEPT ![r].body = SubSeq(req[r].resp.body, 1, n),
                               ![r].pc = "Blocked"]
        /\ w' = IF n = 0 THEN w
                ELSE [w EXCEPT ![r] = Write(@, Bytes(SubSeq(req[r].resp.body, 1, n)))]
    /\ UNCHANGED <<cacheVars, mode, ghostVars, concVars>>

\* ------------------------------------------------------------------------
\* SpecHandler: the server with one of the two handlers, NumRequests
\* requests in flight, the global cache of capacity 10.

\* The server is done with a request; its goroutine takes the next one.
Finish(r) ==
    /\ At(r, "Done")
    /\ req' = [req EXCEPT ![r] = NewRequest]
    /\ w' = [w EXCEPT ![r] = NewResponseWriter]
    /\ UNCHANGED <<cacheVars, mode, ghostVars, concVars>>

InitHandler ==
    /\ mode \in {"self", "embedded"}
    /\ InitHandlerVars
    /\ lru = NewLRUCache(CacheCapacity)
    /\ mu = Unlocked
    /\ last = NoCall
    /\ touched = <<>>
    /\ lastPut = <<>>
    /\ distinctPuts = TRUE
    /\ pc = [p \in Goroutines |-> "idle"]
    /\ frame = [p \in Goroutines |-> NoFrame]

NextHandler ==
    \/ \E r \in Requests, url \in SelfURLs : SelfAccept(r, url)
    \/ \E r \in Requests : SelfGetLock(r)
    \/ \E r \in Requests : SelfGet(r)
    \/ \E r \in Requests : SelfWriteCached(r)
    \/ \E r \in Requests : SelfClientGet(r)
    \/ \E r \in Requests : SelfReadAll(r)
    \/ \E r \in Requests : SelfPutLock(r)
    \/ \E r \in Requests : SelfPut(r)
    \/ \E r \in Requests : SelfWrite(r)
    \/ \E r \in Requests, path \in Paths : EmbeddedAccept(r, path)
    \/ \E r \in Requests : EmbeddedUnescape(r)
    \/ \E r \in Requests : EmbeddedCheckScheme(r)
    \/ \E r \in Requests : EmbeddedHttpGet(r)
    \/ \E r \in Requests : EmbeddedHttpGetBlocks(r)
    \/ \E r \in Requests : EmbeddedCopyHeaders(r)
    \/ \E r \in Requests : EmbeddedCopyBody(r)
    \/ \E r \in Requests : EmbeddedCopyBodyBlocks(r)
    \/ \E r \in Requests : Finish(r)

SpecHandler == InitHandler /\ [][NextHandler]_vars

\* ------------------------------------------------------------------------
\* What the claims speak of.

\* The entries of a list as <<key, value>> pairs, front first.
Entries(l) == [i \in 1..Len(l) |-> <<l[i].key, l[i].value>>]

\* The entries of l whose key is not k.
EntriesWithout(l, k) == SelectSeq(Entries(l), LAMBDA e : e[1] # k)

\* The position of key k in a sequence of keys (0 when it is not in it).
KeyPos(keys, k) ==
    IF \E i \in 1..Len(keys) : keys[i] = k
    THEN CHOOSE i \in 1..Len(keys) : keys[i] = k
    ELSE 0

\* The last step was a call of Put with a key that was absent / present, or
\* a call of Get.
IsPutAbsent(c) == c.op = "Put" /\ ~c.found
IsPutPresent(c) == c.op = "Put" /\ c.found
IsGet(c) == c.op = "Get"

\* ------------------------------------------------------------------------
\* Claims about the cache called sequentially (Spec).

\* C1: after any sequence of Get and Put calls on a cache of capacity
\* C >= 1, the keys of the index map are the keys of the entries of the
\* order list, no key is in two entries, and there are at most C entries.
C1_IndexMatchesOrder ==
    /\ DOMAIN lru.cache = ListKeys(lru.list)
    /\ \A i, j \in 1..Len(lru.list) : lru.list[i].key = lru.list[j].key => i = j
    /\ Len(lru.list) <= lru.capacity

C1_Witness ==
    /\ lru.capacity = 2
    /\ Len(lru.list) = 2
    /\ last.op = "Put" /\ ~last.found
    /\ Cardinality(DOMAIN lastPut) >= 3

\* C3: a Put of an absent key removes an entry only from a cache that holds
\* capacity-many entries, and then exactly the tail, from the map and the
\* list; from a cache with fewer entries it removes none. Either way the
\* key is afterwards at the head with the value Put. A Get, or a Put of a
\* present key, removes no entry.
C3_EvictOnlyTailWhenFull ==
    [][ /\ IsPutAbsent(last') =>
            LET full == Len(lru.list) >= lru.capacity
                kept == IF full THEN SubSeq(lru.list, 1, Len(lru.list) - 1)
                        ELSE lru.list
            IN  /\ Entries(lru'.list)
                     = <<<<last'.key, last'.value>>>> \o Entries(kept)
                /\ DOMAIN lru'.cache = ListKeys(kept) \cup {last'.key}
                /\ lru'.cache[last'.key] = lru'.list[1].id
        /\ (IsGet(last') \/ IsPutPresent(last')) =>
            /\ ListKeys(lru'.list) = ListKeys(lru.list)
            /\ DOMAIN lru'.cache = DOMAIN lru.cache
      ]_vars

C3_Witness ==
    /\ IsPutAbsent(last)
    /\ lru.capacity = 3
    /\ Len(lru.list) = 3
    /\ Cardinality(DOMAIN lastPut) = 4

\* C4: for every capacity C >= 1, Put of C+1 pairwise distinct keys
\* k1..k(C+1) into the empty cache, with no other call in between, evicts
\* exactly k1: Get(k1) then misses, and Get(ki) hits with ki's own value
\* for i in 2..C+1.
C4_FirstKeyEvicted ==
    (distinctPuts /\ Len(touched) = lru.capacity + 1) =>
        /\ ~Get(lru, touched[Len(touched)]).found
        /\ \A i \in 1..lru.capacity :
            /\ Get(lru, touched[i]).found
            /\ Get(lru, touched[i]).value = lastPut[touched[i]]

C4_Witness ==
    /\ distinctPuts
    /\ lru.capacity = 3
    /\ Len(touched) = 4
    /\ touched[4] \notin DOMAIN lru.cache

\* C5: a Get hit counts as a use. In a full cache of capacity C >= 2, the
\* Put of an absent key that directly follows a Get(k) that hit does not
\* evict k: it evicts, of the other present keys, the one whose last
\* Get-hit or Put is the oldest.
C5_GetHitProtects ==
    [][ ( /\ IsGet(last) /\ last.found
          /\ IsPutAbsent(last')
          /\ lru.capacity >= 2
          /\ Len(lru.list) >= lru.capacity ) =>
        LET others == ListKeys(lru.list) \ {last.key}
            oldest == CHOOSE k \in others :
                          \A x \in others : KeyPos(touched, x) <= KeyPos(touched, k)
        IN  /\ last.key \in ListKeys(lru'.list)
            /\ last.key \in DOMAIN lru'.cache
            /\ ListKeys(lru.list) \ ListKeys(lru'.list) = {oldest}
            /\ DOMAIN lru.cache \ DOMAIN lru'.cache = {oldest}
      ]_vars

\* Put(a); Put(b); Get(a); Put(c) at capacity 2: a is present, b is not.
C5_Witness ==
    /\ lru.capacity = 2
    /\ touched = <<"c", "a", "b">>
    /\ IsPutAbsent(last) /\ last.key = "c" /\ last.afterHit = "a"
    /\ Get(lru, "a").found /\ Get(lru, "a").value = lastPut["a"]
    /\ ~Get(lru, "b").found

\* C6: a Put(k, v2) of a present key k replaces k's value by v2 and moves k
\* to the head; the number of entries stays, no other key leaves (in a full
\* cache too), the other entries keep their values and their order, and a
\* following Get(k) returns (v2, true).
C6_UpdateInPlace ==
    [][ IsPutPresent(last') =>
        /\ Entries(lru'.list)
             = <<<<last'.key, last'.value>>>> \o EntriesWithout(lru.list, last'.key)
        /\ Len(lru'.list) = Len(lru.list)
        /\ DOMAIN lru'.cache = DOMAIN lru.cache
        /\ Get(lru', last'.key).found
        /\ Get(lru', last'.key).value = last'.value
      ]_vars

C6_Witness ==
    /\ IsPutPresent(last)
    /\ lru.capacity = 3
    /\ Len(lru.list) = 3
    /\ lastPut[last.key] = last.value
    /\ \E k \in DOMAIN lru.cache : Get(lru, k).value # last.value

\* C7: a Get(k) that returns found = true returns the value of the most
\* recent Put(k, .) before it, and a Get(k) directly after Put(k, v)
\* returns (v, true).
C7_RoundTrip ==
    /\ (IsGet(last) /\ last.found) =>
        /\ last.key \in DOMAIN lastPut
        /\ last.ret = lastPut[last.key]
    /\ last.op = "Put" =>
        /\ Get(lru, last.key).found
        /\ Get(lru, last.key).value = last.value

C7_Witness ==
    /\ IsGet(last) /\ last.found
    /\ last.ret = <<104, 105>>
    /\ Len(lru.list) = 3
    /\ lru.list[1].key = last.key

\* C8: a Get of an absent key returns found = false and leaves the index
\* map, the order list (entries, values, order) and the capacity as they
\* were.
C8_MissHasNoEffect ==
    [][ (IsGet(last') /\ last'.key \notin DOMAIN lru.cache) =>
        /\ ~last'.found
        /\ lru'.cache = lru.cache
        /\ lru'.list = lru.list
        /\ lru'.capacity = lru.capacity
      ]_vars

C8_Witness ==
    /\ IsGet(last) /\ ~last.found
    /\ Len(lru.list) = 2
    /\ last.key \in DOMAIN lastPut

\* ------------------------------------------------------------------------
\* Claims about the cache called by concurrent goroutines (SpecConc).

\* C2: with N >= 2 goroutines calling Get and Put with overlapping keys,
\* every map update and list update a step of its own, at most one
\* goroutine is inside a Get/Put body at a time, and whenever none is, the
\* index map and the order list hold the same keys, at most capacity-many.
C2_MutexKeepsIndexAndOrderInSync ==
    /\ \A p, q \in Goroutines : (InBody(p) /\ InBody(q)) => p = q
    /\ (\A p \in Goroutines : ~InBody(p)) =>
        /\ DOMAIN lru.cache = ListKeys(lru.list)
        /\ Cardinality(DOMAIN lru.cache) = Len(lru.list)
        /\ Len(lru.list) <= lru.capacity

\* A goroutine is between its map update and its list update, the two out
\* of sync, while another waits for the mutex with a key the cache holds.
C2_Witness ==
    \E p, q \in Goroutines :
        /\ pc[p] = "Remove"
        /\ DOMAIN lru.cache # ListKeys(lru.list)
        /\ pc[q] = "Lock"
        /\ frame[q].op = "Put"
        /\ frame[q].key \in ListKeys(lru.list)

\* ------------------------------------------------------------------------
\* Claims about the request handlers (SpecHandler).

\* The value the cache holds under key (no bytes when it holds none).
StoredValue(c, key) ==
    IF \E i \in 1..Len(c.list) : c.list[i].key = key
    THEN c.list[CHOOSE i \in 1..Len(c.list) : c.list[i].key = key].value
    ELSE NilBytes

\* The step is request r's cache.Get.
IsGetOf(r) == req'[r].gets = req[r].gets + 1

\* C9: in Self-URL mode a request whose cache lookup hits is answered with
\* exactly the bytes stored under its URL and issues no outbound fetch and
\* no Put; a request issues an outbound fetch only after its own Get
\* returned a miss.
C9_HitServedFromCache ==
    /\ [](mode = "self" =>
            \A r \in Requests :
                /\ (req[r].gets >= 1 /\ req[r].found) =>
                    /\ req[r].fetches = 0
                    /\ req[r].puts = 0
                    /\ req[r].pc \in {"WriteCached", "Done"}
                    /\ At(r, "Done") =>
                        /\ w[r].body = <<Bytes(req[r].cachedResp)>>
                        /\ w[r].errors = 0
                /\ (req[r].fetches >= 1 \/ At(r, "ClientGet")) =>
                    /\ req[r].gets = 1
                    /\ ~req[r].found)
    /\ [][mode = "self" =>
            \A r \in Requests :
                (IsGetOf(r) /\ req'[r].found) =>
                    /\ req[r].url \in DOMAIN lru.cache
                    /\ req'[r].cachedResp = StoredValue(lru, req[r].url)]_vars

\* A request was answered from the cache while the other, which missed,
\* has issued its fetch.
C9_Witness ==
    /\ mode = "self"
    /\ \E r, q \in Requests :
        /\ At(r, "Done") /\ req[r].found
        /\ w[r].body = <<Bytes(<<104, 105>>)>>
        /\ req[q].fetches = 1 /\ ~req[q].found /\ req[q].url = req[r].url

\* What holds of a request once a call of its handler has failed: one
\* error response and nothing else, and the handler has returned.
EndedInError(r) ==
    /\ At(r, "Done")
    /\ w[r].errors = 1
    /\ w[r].writes = 0
    /\ Len(w[r].body) = 1
    /\ req[r].puts = 0
    /\ req[r].err = "fetch" => (req[r].fetches = 1 /\ req[r].resp = NoResponse)
    /\ req[r].err = "read" => req[r].fetches = 1
    /\ req[r].err \in {"unescape", "scheme"} => req[r].fetches = 0

\* The status and the body the handlers give to a failed call; the body is
\* the message followed by eol.
ErrorResponses(r, eol) ==
    /\ (mode = "self" /\ req[r].err = "fetch") =>
        /\ w[r].status = StatusBadGateway
        /\ w[r].body = <<Text("Failed to fetch from target" \o eol)>>
    /\ (mode = "self" /\ req[r].err = "read") =>
        /\ w[r].status = StatusInternalServerError
        /\ w[r].body = <<Text("Failed to read response" \o eol)>>
    /\ (mode = "embedded" /\ req[r].err = "fetch") =>
        /\ w[r].status = StatusBadGateway
        /\ w[r].body = <<Text("Failed to reach target server" \o eol)>>

\* Every request ends in exactly one outcome, a response.
OneOutcome(r) ==
    At(r, "Done") =>
        /\ w[r].errors + w[r].writes = 1
        /\ w[r].status # 0

\* What may follow the message in the body: nothing, or a newline.
Nothing == ""
Newline == "\n"

\* C10 as stated: every request ends in exactly one terminal outcome and
\* every failure produces a response, 502 "Failed to fetch from target" and
\* 500 "Failed to read response" in Self-URL mode, 502 "Failed to reach
\* target server" in Embedded-URL mode, the body being exactly the message;
\* after an error response no later step of the request is executed.
C10_ErrorBodyIsMessage ==
    \A r \in Requests :
        /\ OneOutcome(r)
        /\ req[r].err # "" => EndedInError(r)
        /\ ErrorResponses(r, Nothing)

\* C10, amended: as above, the body of an error response being the message
\* followed by a newline (http.Error writes it with Fprintln).
C10_ErrorBodyIsMessageLine ==
    \A r \in Requests :
        /\ OneOutcome(r)
        /\ req[r].err # "" => EndedInError(r)
        /\ ErrorResponses(r, Newline)

\* One request ended in 500 after its fetch succeeded, another in 502.
C10_Witness ==
    \E r, q \in Requests :
        /\ At(r, "Done") /\ req[r].err = "read" /\ w[r].status = StatusInternalServerError
        /\ At(q, "Done") /\ req[q].err = "fetch" /\ w[q].status = StatusBadGateway

\* The step is request r's cache.Put.
IsPutOf(r) == req'[r].puts = req[r].puts + 1

\* Request r's outbound fetch succeeded and its whole body was read.
FetchedAndRead(r) ==
    /\ req[r].fetches = 1
    /\ req[r].err = ""
    /\ req[r].resp \in Upstream
    /\ req[r].body = req[r].resp.body

\* C11: in Self-URL mode the cache is written only where the outbound fetch
\* succeeded and the whole body was read: a request that ends with 502 or
\* 500 performs no Put and leaves entries, values and order of the cache
\* as they are, and a successful request stores exactly the body read from
\* its fetch under its URL.
C11_PutOnlyAfterFetchAndRead ==
    /\ [](mode = "self" =>
            \A r \in Requests :
                /\ req[r].puts >= 1 => (req[r].puts = 1 /\ FetchedAndRead(r))
                /\ req[r].err # "" =>
                    /\ req[r].puts = 0
                    /\ ~req[r].found
                    /\ w[r].status \in {StatusBadGateway, StatusInternalServerError})
    /\ [][mode = "self" =>
            /\ \A r \in Requests :
                /\ (req'[r] # req[r] /\ req'[r].err # "") => lru' = lru
                /\ (IsGetOf(r) /\ ~req'[r].found) => lru' = lru
                /\ IsPutOf(r) =>
                    /\ FetchedAndRead(r)
                    /\ req[r].url \in DOMAIN lru'.cache
                    /\ lru'.list[1].key = req[r].url
                    /\ StoredValue(lru', req[r].url) = req[r].resp.body
            /\ lru' # lru =>
                \E r \in Requests : IsPutOf(r) \/ (IsGetOf(r) /\ req'[r].found)]_vars

\* One request ended in 500 with the cache holding what another, which
\* succeeded, stored under its URL; the failed one's URL is not cached.
C11_Witness ==
    /\ mode = "self"
    /\ \E r, q \in Requests :
        /\ At(r, "Done") /\ req[r].err = "read" /\ req[r].puts = 0
        /\ req[r].url \notin DOMAIN lru.cache
        /\ At(q, "Done") /\ req[q].puts = 1
        /\ StoredValue(lru, req[q].url) = <<104, 105>>
        /\ req[q].body = <<104, 105>>

\* Request r was not served from the cache, its outbound fetch succeeded
\* and the handler has returned.
FetchedAndDone(r) ==
    /\ At(r, "Done")
    /\ ~req[r].found
    /\ req[r].err = ""
    /\ req[r].resp \in Upstream

\* Every value of every header of the fetch result is a value of that
\* header of the response, in the same order.
CarriesHeaders(wr, resp) ==
    \A name \in DOMAIN resp.header :
        /\ name \in DOMAIN wr.header
        /\ wr.header[name] = resp.header[name]

\* C12: in both modes, the response to a request that is not served from
\* the cache and whose outbound fetch succeeds carries the status code and
\* all headers of the fetch result, followed by the fetched body.
C12_ResponseCarriesFetchResult ==
    \A r \in Requests :
        FetchedAndDone(r) =>
            /\ w[r].status = req[r].resp.status
            /\ CarriesHeaders(w[r], req[r].resp)
            /\ w[r].body = <<Bytes(req[r].body)>>

\* C12 of the decoding handler alone, which copies headers and status.
C12_EmbeddedCarriesFetchResult ==
    mode = "embedded" => C12_ResponseCarriesFetchResult

\* What the decoding handler is to make of each path of Paths, worked out
\* by hand: "unescape" (400, the decoding fails), "scheme" (400, the decoded
\* string has no http:// or https:// in front), or "fetch" with the target
\* the fetch goes to.
Expected(path) ==
    CASE path = <<47, 104, 116, 116, 112, 58, 47, 47, 120>> ->
            [verdict |-> "fetch", target |-> <<104, 116, 116, 112, 58, 47, 47, 120>>]
      [] path = <<47, 104, 116, 116, 112, 115, 58, 47, 47, 120>> ->
            [verdict |-> "fetch", target |-> <<104, 116, 116, 112, 115, 58, 47, 47, 120>>]
      [] path = <<47, 104, 116, 116, 112, 37, 51, 65, 37, 50, 70, 37, 50, 70, 120>> ->
            [verdict |-> "fetch", target |-> <<104, 116, 116, 112, 58, 47, 47, 120>>]
      [] path = <<47, 102, 116, 112, 58, 47, 47, 120>> ->
            [verdict |-> "scheme", target |-> <<>>]
      [] path = <<47, 104, 116, 116, 112, 58, 47, 47, 120, 37, 122, 122>> ->
            [verdict |-> "unescape", target |-> <<>>]
      [] path = <<47, 120, 37, 50>> ->
            [verdict |-> "unescape", target |-> <<>>]
      [] path = <<47, 97, 43, 98>> ->
            [verdict |-> "scheme", target |-> <<>>]
      [] OTHER -> [verdict |-> "none", target |-> <<>>]

\* Request r has got past the decoding / past the scheme check.
PastUnescape(r) == req[r].pc \notin {"idle", "Unescape"}
PastCheckScheme(r) == req[r].pc \notin {"idle", "Unescape", "CheckScheme"}

\* What C13 says of request r, the body of a 400 being its message followed
\* by eol.
ValidatesTarget(r, eol) ==
    LET u == QueryUnescape(TrimPrefix(req[r].path, Slash))
        e == Expected(req[r].path)
    IN  /\ (PastUnescape(r) /\ u.err) =>
            /\ At(r, "Done")
            /\ req[r].err = "unescape"
            /\ e.verdict = "unescape"
            /\ w[r].status = StatusBadRequest
            /\ w[r].body = <<Text("Invalid URL encoding" \o eol)>>
            /\ req[r].fetches = 0
        /\ (PastCheckScheme(r) /\ ~u.err /\ InvalidScheme(u.str)) =>
            /\ At(r, "Done")
            /\ req[r].err = "scheme"
            /\ w[r].status = StatusBadRequest
            /\ w[r].body = <<Text("Invalid target URL" \o eol)>>
            /\ req[r].fetches = 0
        /\ (PastCheckScheme(r) /\ e.verdict = "scheme") => req[r].err = "scheme"
        /\ (PastCheckScheme(r) /\ e.verdict = "fetch") =>
            /\ req[r].err \in {"", "fetch"}
            /\ req[r].target = e.target
        /\ (req[r].fetches >= 1 \/ At(r, "HttpGet")) =>
            /\ ~u.err
            /\ HasPrefix(u.str, HttpScheme) \/ HasPrefix(u.str, HttpsScheme)
            /\ req[r].target = u.str
            /\ e.verdict = "fetch"

\* C13 as stated: in Embedded-URL mode the path without its leading "/" is
\* percent-decoded first; a decoding failure yields 400 with body "Invalid
\* URL encoding", a decoded string that starts with neither "http://" nor
\* "https://" yields 400 with body "Invalid target URL", in both cases with
\* no outbound fetch; a fetch goes only to a decoded target that passed
\* both checks. The bodies are exactly the messages.
C13_BadTargetBodyIsMessage ==
    mode = "embedded" => \A r \in Requests : ValidatesTarget(r, Nothing)

\* C13, amended: as above, the body of a 400 being the message followed by
\* a newline.
C13_BadTargetBodyIsMessageLine ==
    mode = "embedded" => \A r \in Requests : ValidatesTarget(r, Newline)

\* One request was refused for its encoding, one for its scheme.
C13_Witness ==
    /\ mode = "embedded"
    /\ \E r, q \in Requests :
        /\ At(r, "Done") /\ req[r].err = "unescape" /\ w[r].status = StatusBadRequest
        /\ At(q, "Done") /\ req[q].err = "scheme" /\ w[q].status = StatusBadRequest
        /\ req[q].target = <<97, 32, 98>>

\* Request r has a target that passed both checks and has left the fetch.
PassedValidation(r) ==
    /\ PastCheckScheme(r)
    /\ req[r].err \notin {"unescape", "scheme"}

\* C14: in Embedded-URL mode caching is not applied: every request whose
\* target passes validation issues exactly one outbound fetch, whatever
\* came before, and no request reads or changes the cache.
C14_EmbeddedNeverCaches ==
    /\ [](mode = "embedded" =>
            /\ lru = NewLRUCache(CacheCapacity)
            /\ mu = Unlocked
            /\ \A r \in Requests :
                /\ req[r].gets = 0 /\ req[r].puts = 0
                /\ ~req[r].found /\ req[r].cachedResp = NilBytes
                /\ req[r].fetches = IF PassedValidation(r) /\ ~At(r, "HttpGet")
                                    THEN 1 ELSE 0)
    /\ [][mode = "embedded" =>
            \A r \in Requests :
                (At(r, "HttpGet") /\ req'[r] # req[r]) =>
                    /\ req'[r].fetches = 1
                    /\ lru' = lru]_vars

\* Two requests for the same target, one after the other or together, have
\* both fetched it.
C14_Witness ==
    /\ mode = "embedded"
    /\ \E r, q \in Requests :
        /\ r # q
        /\ req[r].target = req[q].target
        /\ At(r, "Done") /\ req[r].fetches = 1 /\ req[r].resp \in Upstream
        /\ At(q, "Done") /\ req[q].fetches = 1 /\ req[q].resp = req[r].resp
        /\ lru.list = <<>>

\* ------------------------------------------------------------------------
\* The handlers under fair scheduling: a handler that can take its next
\* step takes it (the Go scheduler runs every runnable goroutine), and a
\* handler waiting for the mutex gets it when it is free again and again
\* (sync.Mutex hands the lock to a waiter that has waited long). Accepting
\* a request is up to the clients and is not fair.

\* The steps of request r's handler other than Lock.
HandlerStep(r) ==
    \/ SelfGet(r) \/ SelfWriteCached(r) \/ SelfClientGet(r) \/ SelfReadAll(r)
    \/ SelfPut(r) \/ SelfWrite(r)
    \/ EmbeddedUnescape(r) \/ EmbeddedCheckScheme(r) \/ EmbeddedHttpGet(r)
    \/ EmbeddedCopyHeaders(r) \/ EmbeddedCopyBody(r)

\* lru.mu.Lock() of request r's handler, in Get or in Put.
HandlerLock(r) == SelfGetLock(r) \/ SelfPutLock(r)

SpecHandlerFair ==
    /\ InitHandler
    /\ [][NextHandler]_vars
    /\ \A r \in Requests : WF_vars(HandlerStep(r)) /\ SF_vars(HandlerLock(r))

\* Request r has been accepted and has no response yet.
Accepted(r) == req[r].pc \notin {"idle", "Done"}

\* C15: in both modes every outbound fetch is bounded by the timeout: a
\* fetch whose upstream never answers ends in a fetch failure instead of
\* blocking forever, so under fair scheduling every accepted request
\* eventually receives a response.
C15_EveryRequestAnswered ==
    \A r \in Requests : Accepted(r) ~> At(r, "Done")

\* The same of Self-URL mode alone, whose client has the timeout.
C15_SelfRequestAnswered ==
    \A r \in Requests : (mode = "self" /\ Accepted(r)) ~> At(r, "Done")

\* Request r's handler is fetching, reading the upstream body or writing
\* its response.
OutsideCache(r) ==
    req[r].pc \in {"ClientGet", "ReadAll", "Write", "WriteCached",
                   "Unescape", "CheckScheme", "HttpGet", "Blocked",
                   "CopyHeaders", "CopyBody", "Done"}

\* C16: no handler holds the cache lock while it fetches, reads the
\* upstream body or writes its response: the lock is held only inside Get
\* and Put, so a request whose fetch is pending never keeps another
\* request's Get or Put from completing (the lock is free or its holder is
\* inside Get or Put, and a handler inside them completes its call however
\* many fetches are pending).
C16_LockHeldOnlyInGetAndPut ==
    /\ [](/\ \A r \in Requests :
              /\ mu = r => req[r].pc \in {"Get", "Put"}
              /\ OutsideCache(r) => mu # r
              /\ req[r].pc \in {"Get", "Put"} => mu = r
          /\ mu = Unlocked \/ mu \in Requests)
    /\ [][\A r, q \in Requests :
            (At(r, "ClientGet") /\ q # r /\ mu = q /\ req'[q] # req[q]) =>
                /\ mu' = Unlocked
                /\ req'[q].gets + req'[q].puts = req[q].gets + req[q].puts + 1
                /\ OutsideCache(q)']_vars

\* One request's fetch is pending while another is inside Put with the lock.
C16_Witness ==
    \E r, q \in Requests :
        /\ At(r, "ClientGet") /\ req[r].gets = 1
        /\ At(q, "Put") /\ mu = q

\* ------------------------------------------------------------------------
\* The order of the list and the order of the touches (Spec).

\* The keys of the entries of l, front first.
KeySeq(l) == [i \in 1..Len(l) |-> l[i].key]

\* Key a is nearer the head of the list than key b.
NearerHead(c, a, b) == KeyPos(KeySeq(c.list), a) < KeyPos(KeySeq(c.list), b)

\* The last Get hit or Put on key a happened after that on key b.
TouchedAfter(a, b) == KeyPos(touched, a) < KeyPos(touched, b)

\* C17: after any sequence of Get and Put calls, for any two present keys
\* a and b, a is nearer the head of the list than b exactly when the last
\* Get hit or Put on a happened after the last Get hit or Put on b: the head
\* is the key touched last, the tail the present key touched longest ago.
C17_OrderIsRecency ==
    /\ \A a, b \in DOMAIN lru.cache :
        /\ KeyPos(touched, a) > 0
        /\ NearerHead(lru, a, b) <=> TouchedAfter(a, b)
    /\ lru.list # <<>> =>
        /\ lru.list[1].key = touched[1]
        /\ \A a \in DOMAIN lru.cache :
            KeyPos(touched, a) <= KeyPos(touched, lru.list[Len(lru.list)].key)

\* Three keys are present after four were touched (one was evicted), the
\* last call was a Get hit or an update, directly after a Get hit, and the
\* list is in the order of the touches.
C17_Witness ==
    /\ Len(lru.list) = 3
    /\ last.found
    /\ last.key = lru.list[1].key
    /\ last.afterHit # NoKey
    /\ KeySeq(lru.list) = SubSeq(touched, 1, 3)
    /\ Len(touched) = 4

\* ------------------------------------------------------------------------
\* The cache constructed with any capacity (SpecAnyCap): NewLRUCache checks
\* nothing, so 0 and the negative capacities are capacities too.

\* The capacities are -MaxNegCap .. MaxCap.
MaxNegCap == 2

Capacities == (0 - MaxNegCap)..MaxCap

InitAnyCap ==
    /\ mode = "self"
    /\ InitHandlerVars
    /\ \E capacity \in Capacities : lru = NewLRUCache(capacity)
    /\ mu = Unlocked
    /\ last = NoCall
    /\ touched = <<>>
    /\ lastPut = <<>>
    /\ distinctPuts = TRUE
    /\ pc = [p \in Goroutines |-> "idle"]
    /\ frame = [p \in Goroutines |-> NoFrame]

SpecAnyCap == InitAnyCap /\ [][Next]_vars

\* max(capacity, 1).
AtLeastOne(capacity) == IF capacity > 1 THEN capacity ELSE 1

\* C18: NewLRUCache takes any integer capacity without validation; for
\* every capacity, 0 and the negative ones included, there are never more
\* than max(capacity, 1) entries; with a capacity <= 0 each Put of an absent
\* key evicts the single existing entry (if any) and stores the new one, so
\* that the cache holds exactly the key that was put last.
C18_AnyCapacity ==
    /\ [](/\ lru.capacity \in Capacities
          /\ Len(lru.list) <= AtLeastOne(lru.capacity)
          /\ Cardinality(DOMAIN lru.cache) <= AtLeastOne(lru.capacity)
          /\ lru.capacity <= 0 =>
                /\ last.op = "Put" =>
                    Entries(lru.list) = <<(<<last.key, last.value>>)>>
                /\ lru.list # <<>> =>
                    /\ Len(lru.list) = 1
                    /\ DOMAIN lru.cache = {lru.list[1].key}
                    /\ lru.list[1].key \in DOMAIN lastPut
                    /\ lru.list[1].value = lastPut[lru.list[1].key])
    /\ [][lru.capacity <= 0 =>
            /\ last'.op = "Get" => /\ lru' = lru
                                   /\ last'.found = (lru.list # <<>> /\ lru.list[1].key = last'.key)
            /\ (last'.op = "Put" /\ lru.list # <<>> /\ lru.list[1].key # last'.key) =>
                    /\ lru.list[1].key \notin DOMAIN lru'.cache
                    /\ KeySeq(lru'.list) = <<last'.key>>]_vars

\* A cache of negative capacity: a Put of an absent key has taken the place
\* of the entry that was there.
C18_Witness ==
    /\ lru.capacity < 0
    /\ IsPutAbsent(last)
    /\ Len(touched) >= 2
    /\ KeySeq(lru.list) = <<last.key>>
    /\ touched[2] \notin DOMAIN lru.cache

\* ------------------------------------------------------------------------
\* Two requests for the same uncached URL (SpecHandler).

\* Requests r and q, for the same URL, have both missed, fetched, stored
\* and answered.
BothMissedAndStored(r, q) ==
    /\ r # q
    /\ req[r].url = req[q].url
    /\ At(r, "Done") /\ ~req[r].found /\ req[r].puts = 1
    /\ At(q, "Done") /\ ~req[q].found /\ req[q].puts = 1

\* The number of entries of the list with key k.
EntriesOf(c, k) == Cardinality({i \in 1..Len(c.list) : c.list[i].key = k})

\* C19: the handler's Get and Put are two critical sections, so two
\* concurrent Self-URL requests for the same uncached URL can both miss and
\* both fetch; however they interleave, after both completed the cache has
\* exactly one entry for the URL, its value is the body given to the one of
\* the two Puts that got the lock last, and the size invariant holds.
C19_LastPutWins ==
    /\ [](mode = "self" =>
            \A r, q \in Requests : BothMissedAndStored(r, q) =>
                /\ EntriesOf(lru, req[r].url) = 1
                /\ req[r].url \in DOMAIN lru.cache
                /\ req[r].url \in DOMAIN lastPut
                /\ StoredValue(lru, req[r].url) = lastPut[req[r].url]
                /\ Len(lru.list) <= lru.capacity
                /\ Cardinality(DOMAIN lru.cache) = Len(lru.list))
    /\ [][mode = "self" =>
            \A r, q \in Requests :
                (/\ r # q
                 /\ req[r].url = req[q].url
                 /\ ~req[r].found /\ ~req[q].found
                 /\ req[q].puts = 1
                 /\ IsPutOf(r)) =>
                    /\ EntriesOf(lru, req[r].url) = 1
                    /\ EntriesOf(lru', req[r].url) = 1
                    /\ StoredValue(lru', req[r].url) = req[r].body
                    /\ Len(lru'.list) = Len(lru.list)]_vars

\* Both requests missed and fetched, with different bodies; the cache has
\* the body of the Put that came last, which is not the body of the first.
C19_Witness ==
    /\ mode = "self"
    /\ \E r, q \in Requests :
        /\ BothMissedAndStored(r, q)
        /\ req[r].fetches = 1 /\ req[q].fetches = 1
        /\ req[r].body # req[q].body
        /\ StoredValue(lru, req[r].url) = req[r].body
        /\ lastPut[req[r].url] = req[r].body
        /\ Len(lru.list) = 1

\* ------------------------------------------------------------------------
\* Get and Put called concurrently, under fair scheduling (SpecConcFair): a
\* goroutine inside Get or Put that can take its next step takes it, and a
\* goroutine waiting in Lock gets the mutex when it is free again and again.
\* Calling Get or Put is up to the callers and is not fair.

\* The steps of goroutine p between Lock and the return.
Body(p) ==
    \/ Lookup(p) \/ DoMoveToFront(p) \/ ReadValue(p) \/ DoSetValue(p)
    \/ CheckCapacity(p) \/ DoBack(p) \/ DoDelete(p) \/ DoRemove(p)
    \/ DoPushFront(p) \/ Store(p) \/ Unlock(p)

\* The keys the fair callers use: two, which a cache of capacity 1 cannot
\* hold together.
FairKeys == {"a", "b"}

NextConcFair ==
    \/ \E p \in Goroutines, key \in FairKeys : StartGet(p, key)
    \/ \E p \in Goroutines, key \in FairKeys, value \in ConcValues : StartPut(p, key, value)
    \/ \E p \in Goroutines : Lock(p) \/ Body(p)

SpecConcFair ==
    /\ Init
    /\ [][NextConcFair]_vars
    /\ \A p \in Goroutines : WF_vars(Body(p)) /\ SF_vars(Lock(p))

\* C20: every Get and Put releases the lock on each return path (hit, miss,
\* update, insert with and without eviction), so with any number of
\* concurrent callers there is no deadlock and, under fair lock
\* acquisition, every Get or Put that started returns.
C20_EveryCallReturns ==
    /\ [](/\ \A p \in Goroutines : (mu = p) <=> InBody(p)
          /\ mu # Unlocked => ENABLED Body(mu)
          /\ (\E p \in Goroutines : pc[p] # "idle") =>
                \E p \in Goroutines : ENABLED (Body(p) \/ Lock(p)))
    /\ [][\A p \in Goroutines : (pc[p] # "idle" /\ pc'[p] = "idle") =>
            (mu = p /\ mu' = Unlocked)]_vars
    /\ \A p \in Goroutines : (pc[p] # "idle") ~> (pc[p] = "idle")

\* One goroutine is about to return from a Put that evicted, holding the
\* lock, while the other waits in Lock.
C20_Witness ==
    \E p, q \in Goroutines :
        /\ pc[p] = "Unlock" /\ mu = p
        /\ frame[p].op = "Put" /\ frame[p].lastElem # NilElem
        /\ pc[q] = "Lock"

====
